---------------------------- MODULE Spec2Model ----------------------------
(***************************************************************************)
(* Model of the series cache and fetch coordinator of the trading          *)
(* dashboard: the React hook useStockData (hooks/useStockData.ts), its     *)
(* module-level cache stockDataCache, and the requests it has in flight    *)
(* through the fetch collaborator fetchOHLCV; and of the chart that draws   *)
(* the series: the normalizer normalizeChartData and the default zoom      *)
(* window computeZoomStart.                                                *)
(*                                                                         *)
(* A response is identified with the request that fetched it: the data of  *)
(* request number r is the number r, and 0 stands for null.  A ticker is a *)
(* sequence of one-character strings, so that trim() and toUpperCase() are *)
(* computed rather than assumed.                                           *)
(***************************************************************************)
EXTENDS Integers, Sequences, FiniteSets, TLC

(***************************************************************************)
(* Bounds of the model.                                                    *)
(***************************************************************************)
\* The number of network calls a behaviour may issue.
MaxRequests == 3
\* The last value of the wall clock Date.now().
MaxTime == 2
\* STOCK_DATA_CACHE_TTL_MS (5 * 60 * 1000 in the source), in clock ticks.
STOCK_DATA_CACHE_TTL_MS == 1
\* STOCK_DATA_CACHE_MAX_ENTRIES (120 in the source), scaled so that the
\* store goes over capacity within MaxRequests insertions.
STOCK_DATA_CACHE_MAX_ENTRIES == 1

\* The hook instances (consumers) mounted during a behaviour.
Consumers == {1, 2}

\* Two of the eleven values of Period.
P1d == <<"1", "d">>
P1mo == <<"1", "m", "o">>

\* The props (ticker as typed, period) a consumer may be rendered with.
\* Consumer 1 moves between a blank ticker, two spellings of the key
\* "A:1d" and the key "B:1mo"; consumer 2 is a second view of "A:1d".
Props(c) ==
  IF c = 1
    THEN { <<<<" ">>, P1d>>, <<<<"a">>, P1d>>, <<<<" ", "A">>, P1d>>,
           <<<<"b", " ">>, P1mo>> }
    ELSE { <<<<"A", " ">>, P1d>> }

(***************************************************************************)
(* Strings: String.prototype.trim and String.prototype.toUpperCase.        *)
(***************************************************************************)
IsSpace(ch) == ch = " "

UpperChar(ch) ==
  CASE ch = "a" -> "A"
    [] ch = "b" -> "B"
    [] OTHER -> ch

toUpperCase(s) == [i \in DOMAIN s |-> UpperChar(s[i])]

RECURSIVE trimStart(_)
trimStart(s) ==
  IF s # <<>> /\ IsSpace(Head(s)) THEN trimStart(Tail(s)) ELSE s

RECURSIVE trimEnd(_)
trimEnd(s) ==
  IF s # <<>> /\ IsSpace(s[Len(s)])
    THEN trimEnd(SubSeq(s, 1, Len(s) - 1))
    ELSE s

\* The ticker used as typed.
trim_None(s) == s

trim(s) == trimEnd(trimStart(s))

\* The ticker used as it was typed.
normalizedTicker_AsTyped(ticker) == ticker

\* const normalizedTicker = ticker.trim().toUpperCase();
normalizedTicker(ticker) == toUpperCase(trim(ticker))

\* const missingTicker = normalizedTicker.length === 0;
missingTicker(nt) == Len(nt) = 0

\* const getCacheKey = (ticker, period) => `${ticker}:${period}`;
getCacheKey(nt, period) == nt \o <<":">> \o period

(***************************************************************************)
(* Errors.  An error value is a record; an optional error (APIError |      *)
(* null) is a sequence of at most one record.                              *)
(***************************************************************************)
Undefined == "undefined"
NoStatus == -1

MISSING_TICKER_ERROR ==
  [message |-> "Ticker symbol is required", status |-> NoStatus,
   details |-> Undefined]

\* What fetchOHLCV rejects with: the transport's AbortError, which it
\* rethrows, and an HTTP error built by handleResponse.
AbortError ==
  [name |-> "AbortError", message |-> "The operation was aborted",
   status |-> NoStatus, details |-> Undefined]

HttpError ==
  [name |-> Undefined, message |-> "HTTP 404: Not Found", status |-> 404,
   details |-> "body"]

ThrownErrors == {AbortError, HttpError}

\* (err as Error).name === 'AbortError'
isAbortErrorName(err) == err.name = "AbortError"

\* normalizeAPIError taking its second return for every error.
normalizeAPIError_NoCandidate(err) ==
  [message |-> "Failed to fetch stock data", status |-> NoStatus,
   details |-> "err"]

\* normalizeAPIError: every thrown value of the model is an object with a
\* message, so the first branch is the one taken.
normalizeAPIError(err) ==
  [message |-> IF err.message = "" THEN "Failed to fetch stock data"
               ELSE err.message,
   status |-> err.status,
   details |-> IF err.details = Undefined THEN "err" ELSE err.details]

(***************************************************************************)
(* The chart: the normalizer normalizeChartData of the candlestick chart   *)
(* and the default zoom window of its option.  A point carries its time,   *)
(* open and close; high, low and volume are copied through untouched and   *)
(* are left out.  An ISO time is a sequence of tokens, a clock reading     *)
(* followed by at most one zone suffix, so that the suffix test and        *)
(* Date.parse are computed.  A timestamp is counted in units of which      *)
(* INTRADAY_RANGE_MS is the seven-day threshold.                           *)
(***************************************************************************)
\* The longest series a response carries.
MaxPoints == 3
\* The largest point count the chart option is built for.
MaxPointCount == 30000
\* 7 * 24 * 60 * 60 * 1000 in the source, in timestamp units.
INTRADAY_RANGE_MS == 1

VOLUME_WINDOW_SIZE == 150

UP_COLOR == "#22c55e"
DOWN_COLOR == "#ef4444"

\* The zone suffixes of the model, "Z" and one numeric offset, with the
\* number of timestamp units local time is ahead of UTC.
ZoneOffset(tok) ==
  CASE tok = "Z" -> 0
    [] tok = "+01:00" -> 1

\* The clock readings Date.parse understands, as timestamp units.
ClockReading(tok) ==
  CASE tok = "1" -> 1
    [] tok = "2" -> 2
    [] tok = "3" -> 3
    [] tok = "4" -> 4

\* The times a point may carry: no suffix, "Z", an offset that makes a
\* later clock reading the same instant as "2Z", and one that is no date.
IsoTimes ==
  { <<"1">>, <<"2", "Z">>, <<"3", "+01:00">>, <<"4", "Z">>, <<"x">> }

\* open and close of a point.
Prices == { <<1, 2>>, <<2, 1>>, <<1, 1>> }

RawPoints ==
  { [time |-> t, open |-> pr[1], close |-> pr[2]] : t \in IsoTimes, pr \in Prices }

\* The OHLCVResponse values the chart may be given: data of every length
\* up to MaxPoints.
RawResponses ==
  { [data |-> s] : s \in UNION { [1..k -> RawPoints] : k \in 0..MaxPoints } }

\* const HAS_TIMEZONE_SUFFIX = /(Z|[+-]\d{2}:\d{2})$/i
HAS_TIMEZONE_SUFFIX(isoTime) ==
  isoTime # <<>> /\ isoTime[Len(isoTime)] \in {"Z", "+01:00"}

\* Date.parse: <<ms>>, or <<>> for NaN.
DateParse(s) ==
  IF Len(s) = 2 /\ s[1] \in {"1", "2", "3", "4"} /\ s[2] \in {"Z", "+01:00"}
    THEN <<ClockReading(s[1]) - ZoneOffset(s[2])>>
    ELSE <<>>

\* toEpochMs: <<timestampMs>>, or <<>> for null.
toEpochMs(isoTime) ==
  LET normalizedTime == IF HAS_TIMEZONE_SUFFIX(isoTime) THEN isoTime
                        ELSE isoTime \o <<"Z">>
  IN  DateParse(normalizedTime)

\* The first loop of normalizeChartData, keeping one point per timestamp.
RECURSIVE parsePoints_Dedup(_)
parsePoints_Dedup(data) ==
  IF data = <<>> THEN <<>>
  ELSE LET point == data[Len(data)]
           before == parsePoints_Dedup(SubSeq(data, 1, Len(data) - 1))
           timestampMs == toEpochMs(point.time)
       IN  IF timestampMs = <<>>
                \/ \E i \in DOMAIN before : before[i].timestampMs = timestampMs[1]
             THEN before
             ELSE Append(before, [isoTime |-> point.time,
                                  timestampMs |-> timestampMs[1],
                                  open |-> point.open, close |-> point.close])

\* The first loop of normalizeChartData: parsedPoints, the points whose
\* time parses, in input order, each with its timestampMs.
RECURSIVE parsePoints(_)
parsePoints(data) ==
  IF data = <<>> THEN <<>>
  ELSE LET point == data[Len(data)]
           before == parsePoints(SubSeq(data, 1, Len(data) - 1))
           timestampMs == toEpochMs(point.time)
       IN  IF timestampMs = <<>>
             THEN before
             ELSE Append(before, [isoTime |-> point.time,
                                  timestampMs |-> timestampMs[1],
                                  open |-> point.open, close |-> point.close])

\* isAlreadySorted after the first loop: no point has a timestamp below
\* that of the point parsed before it.
isAlreadySorted(parsedPoints) ==
  \A i \in 2..Len(parsedPoints) :
    ~(parsedPoints[i].timestampMs < parsedPoints[i - 1].timestampMs)

\* An insertion that puts a point before the points of its own timestamp.
RECURSIVE insertByTimestamp_Unstable(_, _)
insertByTimestamp_Unstable(sorted, point) ==
  IF sorted = <<>> THEN <<point>>
  ELSE IF sorted[Len(sorted)].timestampMs - point.timestampMs >= 0
    THEN Append(insertByTimestamp_Unstable(SubSeq(sorted, 1, Len(sorted) - 1),
                                           point),
                sorted[Len(sorted)])
    ELSE Append(sorted, point)

\* Array.prototype.sort is stable: a point goes after every point whose
\* comparison with it, left.timestampMs - right.timestampMs, is not
\* positive.
RECURSIVE insertByTimestamp(_, _)
insertByTimestamp(sorted, point) ==
  IF sorted = <<>> THEN <<point>>
  ELSE IF sorted[Len(sorted)].timestampMs - point.timestampMs > 0
    THEN Append(insertByTimestamp(SubSeq(sorted, 1, Len(sorted) - 1), point),
                sorted[Len(sorted)])
    ELSE Append(sorted, point)

\* The sort left out.
sortByTimestamp_None(parsedPoints) == parsedPoints

\* [...parsedPoints].sort((left, right) => left.timestampMs - right.timestampMs)
RECURSIVE sortByTimestamp(_)
sortByTimestamp(parsedPoints) ==
  IF parsedPoints = <<>> THEN <<>>
  ELSE insertByTimestamp(
         sortByTimestamp(SubSeq(parsedPoints, 1, Len(parsedPoints) - 1)),
         parsedPoints[Len(parsedPoints)])

\* The colour of the point at position i of sortedPoints: previousClose is
\* null at the first point only.
volumeColor(sortedPoints, i) ==
  LET point == sortedPoints[i]
      referenceClose == IF i = 1 THEN point.open ELSE sortedPoints[i - 1].close
  IN  IF point.close >= referenceClose THEN UP_COLOR ELSE DOWN_COLOR

\* The flag with the boundary left out.
useIntradayAxisLabels_Strict(points) ==
  LET firstPointTime == IF points = <<>> THEN 0 ELSE points[1].timestampMs
      lastPointTime == IF points = <<>> THEN 0 ELSE points[Len(points)].timestampMs
  IN  lastPointTime - firstPointTime < INTRADAY_RANGE_MS

\* timeRangeMs <= 7 * 24 * 60 * 60 * 1000
useIntradayAxisLabels(points) ==
  LET firstPointTime == IF points = <<>> THEN 0 ELSE points[1].timestampMs
      lastPointTime == IF points = <<>> THEN 0 ELSE points[Len(points)].timestampMs
      timeRangeMs == lastPointTime - firstPointTime
  IN  timeRangeMs <= INTRADAY_RANGE_MS

EMPTY_CHART_DATA ==
  [points |-> <<>>, categories |-> <<>>, candles |-> <<>>, volumes |-> <<>>,
   useIntradayAxisLabels |-> FALSE]

\* The second loop of normalizeChartData and its return value.  A candle
\* is [open, close, low, high] in the source.
buildChartData(sortedPoints) ==
  LET points == [i \in DOMAIN sortedPoints |->
                   [isoTime |-> sortedPoints[i].isoTime,
                    timestampMs |-> sortedPoints[i].timestampMs,
                    open |-> sortedPoints[i].open,
                    close |-> sortedPoints[i].close,
                    volumeColor |-> volumeColor(sortedPoints, i)]]
  IN  [points |-> points,
       categories |-> [i \in DOMAIN points |-> points[i].isoTime],
       candles |-> [i \in DOMAIN points |-> <<points[i].open, points[i].close>>],
       volumes |-> [i \in DOMAIN points |-> [color |-> points[i].volumeColor]],
       useIntradayAxisLabels |-> useIntradayAxisLabels(points)]

\* normalizeChartData without the return for a series none of whose points
\* parses.
normalizeChartData_NoEmptyReturn(response) ==
  IF response = <<>> \/ Len(response[1].data) = 0 THEN EMPTY_CHART_DATA
  ELSE LET parsedPoints == parsePoints(response[1].data)
           sortedPoints == IF isAlreadySorted(parsedPoints) THEN parsedPoints
                           ELSE sortByTimestamp(parsedPoints)
       IN  buildChartData(sortedPoints)

\* normalizeChartData(response): response is <<>> for null, or holds one
\* OHLCVResponse.
normalizeChartData(response) ==
  IF response = <<>> \/ Len(response[1].data) = 0 THEN EMPTY_CHART_DATA
  ELSE LET parsedPoints == parsePoints(response[1].data)
           sortedPoints == IF isAlreadySorted(parsedPoints) THEN parsedPoints
                           ELSE sortByTimestamp(parsedPoints)
       IN  IF Len(sortedPoints) = 0 THEN EMPTY_CHART_DATA
           ELSE buildChartData(sortedPoints)

\* convertToVolumeData of the lightweight-charts component: one histogram
\* bar per point of data.data, in the order of data.data.  The time of a
\* bar is convertToUnixTime of the point's time, held here as that time.
convertToVolumeData(data) ==
  [index \in DOMAIN data.data |->
     LET point == data.data[index]
         prevClose == IF index > 1 THEN data.data[index - 1].close
                      ELSE point.open
         isUp == point.close >= prevClose
     IN  [time |-> point.time,
          color |-> IF isUp THEN "#22c55e" ELSE "#ef4444"]]

\* Math.round of the quotient num / den (num >= 0, den > 0): the nearest
\* integer, a half going up.
MathRound(num, den) == (2 * num + den) \div (2 * den)

\* computeZoomStart with the percentage cut to a whole number.
computeZoomStart_Floor(pointCount) ==
  IF pointCount <= VOLUME_WINDOW_SIZE THEN 0
  ELSE LET floored == (100 * (pointCount - VOLUME_WINDOW_SIZE)) \div pointCount
       IN  IF floored > 0 THEN floored ELSE 0

\* computeZoomStart: (1 - VOLUME_WINDOW_SIZE / pointCount) * 100 is the
\* quotient 100 * (pointCount - VOLUME_WINDOW_SIZE) / pointCount.
computeZoomStart(pointCount) ==
  IF pointCount <= VOLUME_WINDOW_SIZE THEN 0
  ELSE LET rounded == MathRound(100 * (pointCount - VOLUME_WINDOW_SIZE),
                                pointCount)
       IN  IF rounded > 0 THEN rounded ELSE 0

\* dataZoom[..].start of buildChartOption.
dataZoomStart(pointCount) ==
  LET hasData == pointCount > 0
      zoomStart == computeZoomStart(pointCount)
  IN  IF hasData THEN zoomStart ELSE 0

\* The response the backend serves while the hook is observed: a series in
\* time order.
OrderedResponse ==
  [data |-> << [time |-> <<"1">>, open |-> 1, close |-> 2],
               [time |-> <<"2", "Z">>, open |-> 2, close |-> 1] >>]

\* The responses a backend may serve: one in time order, one out of order,
\* one with a time that is no date.
ServedResponses ==
  { OrderedResponse,
    [data |-> << [time |-> <<"4", "Z">>, open |-> 1, close |-> 2],
                 [time |-> <<"1">>, open |-> 2, close |-> 1] >>],
    [data |-> << [time |-> <<"x">>, open |-> 1, close |-> 1] >>] }

\* No chart has rendered; no chart option has been built.
NoChart == [kind |-> "none", data |-> <<>>, chartData |-> EMPTY_CHART_DATA,
            volumeData |-> <<>>, zoomStart |-> 0]
NotBuilt == -1

(***************************************************************************)
(* Failures of fetchOHLCV: what the transport gives, what handleResponse   *)
(* and fetchOHLCV throw for it.  A message is a string; the text           *)
(* "HTTP <status>: <statusText>" is one string per status.  An optional    *)
(* JSON body is a sequence of at most one record.                          *)
(***************************************************************************)
\* The statuses of the responses that are not ok.
FailureStatuses == {400, 404, 422, 500, 503}

\* `HTTP ${response.status}: ${response.statusText}`
HttpStatusMessage(status) ==
  CASE status = 400 -> "HTTP 400: Bad Request"
    [] status = 404 -> "HTTP 404: Not Found"
    [] status = 422 -> "HTTP 422: Unprocessable Entity"
    [] status = 500 -> "HTTP 500: Internal Server Error"
    [] status = 503 -> "HTTP 503: Service Unavailable"

\* The bodies of a response that is not ok: whether response.text() can be
\* read, the text, and what JSON.parse makes of it (<<>> when it throws).
ErrorBodies ==
  { [readable |-> FALSE, text |-> "", json |-> <<>>],
    [readable |-> TRUE, text |-> "", json |-> <<>>],
    [readable |-> TRUE, text |-> "Bad Gateway", json |-> <<>>],
    [readable |-> TRUE, text |-> "{}",
     json |-> <<[detail |-> Undefined, message |-> Undefined]>>],
    [readable |-> TRUE, text |-> "{detail}",
     json |-> <<[detail |-> "No data found", message |-> Undefined]>>],
    [readable |-> TRUE, text |-> "{message}",
     json |-> <<[detail |-> Undefined, message |-> "Rate limited"]>>],
    [readable |-> TRUE, text |-> "{detail,message}",
     json |-> <<[detail |-> "No data found", message |-> "Rate limited"]>>] }

\* What a fetchOHLCV call that fails meets: a response that is not ok, an
\* ok response that fails the schema, a fetch that throws a TypeError, or
\* an aborted fetch.
TransportFailures ==
  { [kind |-> "http", status |-> st, body |-> b] :
      st \in FailureStatuses, b \in ErrorBodies }
  \cup { [kind |-> k, status |-> NoStatus,
          body |-> [readable |-> FALSE, text |-> "", json |-> <<>>]] :
           k \in {"invalid", "syntax", "network", "abort"} }

\* handleResponse, for a response that is not ok: the error it throws.
handleResponseError(status, body) ==
  LET errorBody == IF body.readable THEN body.text ELSE "Unknown error"
      parsed == IF body.readable THEN body.json ELSE <<>>
      default == HttpStatusMessage(status)
      errorMessage ==
        IF parsed # <<>>
          THEN IF parsed[1].detail \notin {Undefined, ""} THEN parsed[1].detail
               ELSE IF parsed[1].message \notin {Undefined, ""}
                 THEN parsed[1].message
               ELSE default
        ELSE IF errorBody # "" THEN errorBody
        ELSE default
  IN  [name |-> Undefined, message |-> errorMessage, status |-> status,
       details |-> errorBody]

\* handleResponse, for an ok response that fails schema.parse.
ValidationError ==
  [name |-> Undefined, message |-> "Invalid response format from server",
   status |-> 500, details |-> "ZodError"]

\* What fetch itself throws when the network fails.
NetworkError ==
  [name |-> "TypeError", message |-> "Failed to fetch", status |-> NoStatus,
   details |-> Undefined]

\* What response.json() throws for an ok response whose body is not JSON.
SyntaxError ==
  [name |-> "SyntaxError", message |-> "Unexpected end of JSON input",
   status |-> NoStatus, details |-> Undefined]

\* 'message' in error && ('status' in error || 'details' in error): every
\* error of the model has a message.
isAPIError(error) == error.status # NoStatus \/ error.details # Undefined

\* The catch block of fetchOHLCV: an AbortError and an APIError are thrown
\* on, anything else is wrapped.
fetchOHLCVRethrow(error) ==
  IF isAbortErrorName(error) THEN error
  ELSE IF isAPIError(error) THEN error
  ELSE [name |-> Undefined,
        message |-> "Failed to fetch OHLCV data for A: " \o error.message,
        status |-> NoStatus, details |-> error.name]

\* What fetchOHLCV throws for a transport failure.
fetchOHLCVError(outcome) ==
  fetchOHLCVRethrow(
    CASE outcome.kind = "http" -> handleResponseError(outcome.status, outcome.body)
      [] outcome.kind = "invalid" -> ValidationError
      [] outcome.kind = "syntax" -> SyntaxError
      [] outcome.kind = "network" -> NetworkError
      [] outcome.kind = "abort" -> AbortError)

\* No fetchOHLCV call is followed.
NoFailure == [stage |-> "none", outcome |-> <<>>, thrown |-> <<>>,
              reported |-> <<>>]

(***************************************************************************)
(* The hook useCalculateIndicators.  Its calculate calls are kept in a     *)
(* log: a call either resets the state or issues a request, which carries  *)
(* the abort flag of its controller and settles later.                     *)
(***************************************************************************)
\* The number of calculate calls a behaviour may make.
MaxCalls == 4

\* The tickers and indicator lists calculate is called with.
CalcTickers == { <<>>, <<" ">>, <<"a">> }
CalcIndicators == { <<>>, <<"sma">> }

\* useState(null), useState(false), useState(null), useRef(null): data is 0
\* for null or the number of the call whose result it is, controller is 0
\* for no controller or the number of the call it belongs to.
InitialCalc ==
  [data |-> 0, loading |-> FALSE, error |-> <<>>, controller |-> 0,
   calls |-> <<>>]

(***************************************************************************)
(* State.                                                                  *)
(***************************************************************************)
VARIABLES
  now,             \* Date.now()
  stockDataCache,  \* the Map, as its entries in insertion order
  reqs,            \* every fetchOHLCV call issued, in issuance order
  hook,            \* per consumer: props, useState state, pending effect
  response,        \* the OHLCVResponse the backend serves
  chart,           \* the chart component: its data prop and what it derived
  zoom,            \* a chart option: the point count and dataZoom start
  failure,         \* a failed fetchOHLCV call, from transport to consumer
  calc             \* the hook useCalculateIndicators and its calculate calls

vars ==
  <<now, stockDataCache, reqs, hook, response, chart, zoom, failure, calc>>

\* What the hook leaves alone.
viewVars == <<response, chart, zoom, failure, calc>>

NoZoom == [pointCount |-> 0, start |-> NotBuilt]

NoEffect == [kind |-> "none", req |-> 0, data |-> 0]

\* useState's initial value, before the first render.
InitialHook ==
  [phase |-> "new", ticker |-> <<>>, period |-> <<>>,
   data |-> 0, loading |-> FALSE, error |-> <<>>, eff |-> NoEffect]

\* The page holds one consumer, consumer 1; no second view is rendered.
Init ==
  /\ now = 0
  /\ stockDataCache = <<>>
  /\ reqs = <<>>
  /\ hook = [c \in Consumers |->
               IF c = 1 THEN InitialHook
               ELSE [InitialHook EXCEPT !.phase = "absent"]]
  /\ response = OrderedResponse
  /\ chart = NoChart
  /\ zoom = NoZoom
  /\ failure = NoFailure
  /\ calc = InitialCalc

\* The page holds two consumers sharing the cache.
InitShared ==
  /\ now = 0
  /\ stockDataCache = <<>>
  /\ reqs = <<>>
  /\ hook = [c \in Consumers |-> InitialHook]
  /\ response = OrderedResponse
  /\ chart = NoChart
  /\ zoom = NoZoom
  /\ failure = NoFailure
  /\ calc = InitialCalc

(***************************************************************************)
(* The cache.                                                              *)
(***************************************************************************)
cacheHas(cache, key) == \E i \in DOMAIN cache : cache[i].key = key

\* stockDataCache.get(cacheKey): the entry, or <<>> for undefined.
cacheGet(cache, key) == SelectSeq(cache, LAMBDA e : e.key = key)

cacheDelete(cache, key) == SelectSeq(cache, LAMBDA e : e.key # key)

\* isCacheFresh with the boundary left out.
isCacheFresh_Strict(entry, t) == t - entry.cachedAt < STOCK_DATA_CACHE_TTL_MS

\* isCacheFresh without the expiry.
isCacheFresh_Forever(entry, t) == t - entry.cachedAt >= 0

\* Date.now() - entry.cachedAt <= STOCK_DATA_CACHE_TTL_MS
isCacheFresh(entry, t) == t - entry.cachedAt <= STOCK_DATA_CACHE_TTL_MS

\* Map.prototype.set: the value of a key the Map holds is replaced where it
\* is; a new key goes last.
cacheSet(cache, key, entry) ==
  IF cacheHas(cache, key)
    THEN [i \in DOMAIN cache |-> IF cache[i].key = key THEN entry ELSE cache[i]]
    ELSE Append(cache, entry)

\* setCachedStockData without the eviction.
setCachedStockData_NoEvict(cache, key, data, t) ==
  cacheSet(cacheDelete(cache, key), key,
           [key |-> key, data |-> data, cachedAt |-> t])

\* setCachedStockData dropping the last key of the Map, the one just set.
setCachedStockData_EvictNewest(cache, key, data, t) ==
  LET removed == IF cacheHas(cache, key) THEN cacheDelete(cache, key)
                 ELSE cache
      added == cacheSet(removed, key,
                        [key |-> key, data |-> data, cachedAt |-> t])
  IN  IF Len(added) > STOCK_DATA_CACHE_MAX_ENTRIES
        THEN cacheDelete(added, added[Len(added)].key)
        ELSE added

\* setCachedStockData: delete an existing key, set it, and drop the first
\* key of the Map when the size is over the maximum.  Every cache key holds
\* a ":" and so is truthy.
setCachedStockData(cache, key, data, t) ==
  LET removed == IF cacheHas(cache, key) THEN cacheDelete(cache, key)
                 ELSE cache
      added == cacheSet(removed, key,
                        [key |-> key, data |-> data, cachedAt |-> t])
  IN  IF Len(added) > STOCK_DATA_CACHE_MAX_ENTRIES
        THEN cacheDelete(added, Head(added).key)
        ELSE added

(***************************************************************************)
(* The hook.                                                               *)
(***************************************************************************)
\* The values a render computes from the props (ticker, period).
tickerOf(h) == normalizedTicker(h.ticker)
cacheKeyOf(h) == getCacheKey(tickerOf(h), h.period)

\* The dependencies of the effect and of refetch.
depsOf(h) == <<cacheKeyOf(h), missingTicker(tickerOf(h)), tickerOf(h), h.period>>

\* The object the hook returns (data, loading, error).
Exposed(h) ==
  IF missingTicker(tickerOf(h))
    THEN [data |-> 0, loading |-> FALSE, error |-> <<MISSING_TICKER_ERROR>>]
    ELSE [data |-> h.data, loading |-> h.loading, error |-> h.error]

\* setState on a hook instance: React drops updates of an unmounted one.
setState(h, data, loading, error) ==
  IF h.phase = "mounted"
    THEN [h EXCEPT !.data = data, !.loading = loading, !.error = error]
    ELSE h

\* A new fetchOHLCV call.  prior is the data of the cachedEntry the effect
\* closure holds (0 when there is none); signal tells whether the call was
\* given an AbortSignal.
NewRequest(c, key, kind, prior) ==
  [owner |-> c, key |-> key, kind |-> kind, signal |-> kind = "auto",
   aborted |-> FALSE, prior |-> prior, outcome |-> "pending"]

\* A cleanup that aborts through one controller shared by every call in
\* flight.
Cleanup_SharedController(rq, eff) ==
  IF eff.kind = "fetch" /\ rq[eff.req].outcome = "pending"
    THEN [i \in DOMAIN rq |->
            IF rq[i].outcome = "pending"
              THEN [rq[i] EXCEPT !.aborted = TRUE]
              ELSE rq[i]]
    ELSE rq

\* The cleanup of the effect: clearTimeout, or abortController.abort().
\* Nothing reads the signal of a call that has settled, so only a pending
\* call records the abort.
Cleanup(rq, eff) ==
  IF eff.kind = "fetch" /\ rq[eff.req].outcome = "pending"
    THEN [rq EXCEPT ![eff.req].aborted = TRUE]
    ELSE rq

\* The effect body keeping a timer that is pending: clearTimeout undone.
RunEffect_KeepsTimer(c, h, rq) ==
  LET key == cacheKeyOf(h)
      found == cacheGet(stockDataCache, key)
  IN  IF h.eff.kind = "timer"
        THEN [hook |-> h, reqs |-> rq]
      ELSE IF missingTicker(tickerOf(h))
        THEN [hook |-> [h EXCEPT !.eff = NoEffect], reqs |-> rq]
      ELSE IF found # <<>> /\ isCacheFresh(found[1], now)
        THEN [hook |-> [h EXCEPT !.eff = [kind |-> "timer", req |-> 0,
                                          data |-> found[1].data]],
              reqs |-> rq]
      ELSE LET prior == IF found # <<>> THEN found[1].data ELSE 0
               shown == IF prior # 0 THEN prior ELSE h.data
               h1 == setState(h, shown, TRUE, <<>>)
           IN  [hook |-> [h1 EXCEPT !.eff = [kind |-> "fetch",
                                             req |-> Len(rq) + 1,
                                             data |-> 0]],
                reqs |-> Append(rq, NewRequest(c, key, "auto", prior))]

\* The body of the auto-fetch effect for a hook whose props are already h's.
\* Yields the hook and the requests after the effect has run.
RunEffect(c, h, rq) ==
  LET key == cacheKeyOf(h)
      found == cacheGet(stockDataCache, key)
  IN  IF missingTicker(tickerOf(h))
        THEN [hook |-> [h EXCEPT !.eff = NoEffect], reqs |-> rq]
      ELSE IF found # <<>> /\ isCacheFresh(found[1], now)
        THEN [hook |-> [h EXCEPT !.eff = [kind |-> "timer", req |-> 0,
                                          data |-> found[1].data]],
              reqs |-> rq]
      ELSE LET prior == IF found # <<>> THEN found[1].data ELSE 0
               shown == IF prior # 0 THEN prior ELSE h.data
               h1 == setState(h, shown, TRUE, <<>>)
           IN  [hook |-> [h1 EXCEPT !.eff = [kind |-> "fetch",
                                             req |-> Len(rq) + 1,
                                             data |-> 0]],
                reqs |-> Append(rq, NewRequest(c, key, "auto", prior))]

\* Whether running the effect for the props of h issues a network call.
EffectFetches(h) ==
  LET found == cacheGet(stockDataCache, cacheKeyOf(h))
  IN  /\ ~missingTicker(tickerOf(h))
      /\ ~(found # <<>> /\ isCacheFresh(found[1], now))

\* First render of a consumer and the first run of its effect.
Mount(c, ticker, period) ==
  LET h == [hook[c] EXCEPT !.phase = "mounted", !.ticker = ticker,
                           !.period = period]
      out == RunEffect(c, h, reqs)
  IN  /\ hook[c].phase = "new"
      /\ EffectFetches(h) => Len(reqs) < MaxRequests
      /\ hook' = [hook EXCEPT ![c] = out.hook]
      /\ reqs' = out.reqs
      /\ UNCHANGED <<now, stockDataCache>>
      /\ UNCHANGED viewVars

\* A render with new props.  The effect's dependencies are cacheKey,
\* missingTicker, normalizedTicker and period: when one of them changes the
\* old effect is cleaned up and the effect runs again; when none does, the
\* render leaves the effect alone.
SetProps(c, ticker, period) ==
  LET h == [hook[c] EXCEPT !.ticker = ticker, !.period = period]
      out == RunEffect(c, h, Cleanup(reqs, hook[c].eff))
  IN  /\ hook[c].phase = "mounted"
      /\ <<ticker, period>> # <<hook[c].ticker, hook[c].period>>
      /\ IF depsOf(h) # depsOf(hook[c])
           THEN /\ EffectFetches(h) => Len(reqs) < MaxRequests
                /\ hook' = [hook EXCEPT ![c] = out.hook]
                /\ reqs' = out.reqs
           ELSE /\ hook' = [hook EXCEPT ![c] = h]
                /\ UNCHANGED reqs
      /\ UNCHANGED <<now, stockDataCache>>
      /\ UNCHANGED viewVars

\* The consumer is disposed: the effect's cleanup runs, and the state of
\* the instance is gone.
Unmount(c) ==
  /\ hook[c].phase = "mounted"
  /\ hook' = [hook EXCEPT ![c] = [InitialHook EXCEPT !.phase = "unmounted"]]
  /\ reqs' = Cleanup(reqs, hook[c].eff)
  /\ UNCHANGED <<now, stockDataCache>>
  /\ UNCHANGED viewVars

\* The zero-delay timer of the fresh-cache branch fires.
TimerFires(c) ==
  /\ hook[c].phase = "mounted"
  /\ hook[c].eff.kind = "timer"
  /\ hook' = [hook EXCEPT
                ![c] = [setState(hook[c], hook[c].eff.data, FALSE, <<>>)
                          EXCEPT !.eff = NoEffect]]
  /\ UNCHANGED <<now, stockDataCache, reqs>>
  /\ UNCHANGED viewVars

\* refetch(), called by the consumer with the props of its last render.
Refetch(c) ==
  LET h == hook[c]
  IN  /\ h.phase = "mounted"
      /\ IF missingTicker(tickerOf(h))
           THEN /\ hook' = [hook EXCEPT
                              ![c] = setState(h, h.data, FALSE,
                                              <<MISSING_TICKER_ERROR>>)]
                /\ UNCHANGED reqs
           ELSE /\ Len(reqs) < MaxRequests
                /\ hook' = [hook EXCEPT
                              ![c] = setState(h, h.data, TRUE, <<>>)]
                /\ reqs' = Append(reqs,
                                  NewRequest(c, cacheKeyOf(h), "refetch", 0))
      /\ UNCHANGED <<now, stockDataCache>>
      /\ UNCHANGED viewVars

\* The abort check left out.
NotAborted_Unchecked(rq) == TRUE

\* What is left of a call once its promise has settled and its handler has
\* run: how it ended, the cachedEntry its caller held, and for an applied
\* response the key the response carries (its ticker and period).
Settled(rq, outcome) ==
  [owner |-> 0, key |-> IF outcome = "applied" THEN rq.key ELSE <<>>,
   kind |-> "", signal |-> FALSE, aborted |-> FALSE, prior |-> rq.prior,
   outcome |-> outcome]

\* A signal test that also fails once the entry of the key has been
\* evicted: a response was applied for the key and the cache has no entry.
NotAborted_UnlessEvicted(rq) ==
  /\ ~(rq.signal /\ rq.aborted)
  /\ \/ cacheHas(stockDataCache, rq.key)
     \/ \A q \in DOMAIN reqs :
          ~(reqs[q].outcome = "applied" /\ reqs[q].key = rq.key)

\* if (!abortController.signal.aborted): refetch has no controller.
NotAborted(rq) == ~(rq.signal /\ rq.aborted)

\* fetchOHLCV resolves for request r; the response is r.
Resolve(r) ==
  LET rq == reqs[r]
      c == rq.owner
  IN  /\ rq.outcome = "pending"
      /\ IF NotAborted(rq)
           THEN /\ stockDataCache' =
                     setCachedStockData(stockDataCache, rq.key, r, now)
                /\ hook' = [hook EXCEPT ![c] = setState(hook[c], r, FALSE, <<>>)]
                /\ reqs' = [reqs EXCEPT ![r] = Settled(rq, "applied")]
           ELSE /\ reqs' = [reqs EXCEPT ![r] = Settled(rq, "dropped")]
                /\ UNCHANGED <<stockDataCache, hook>>
      /\ UNCHANGED now
      /\ UNCHANGED viewVars

\* A catch block that drops the entry of the failed key.
CacheAfterFailure_Drop(cache, key) == cacheDelete(cache, key)

\* The cache after a catch block has run: neither catch block calls it.
CacheAfterFailure(cache, key) == cache

\* fetchOHLCV rejects with err for request r.  The transport rejects with
\* its AbortError only for a call whose signal has been aborted.
Reject(r, err) ==
  LET rq == reqs[r]
      c == rq.owner
  IN  /\ rq.outcome = "pending"
      /\ isAbortErrorName(err) => (rq.signal /\ rq.aborted)
      /\ IF isAbortErrorName(err)
           THEN /\ reqs' = [reqs EXCEPT ![r] = Settled(rq, "swallowed")]
                /\ UNCHANGED hook
         ELSE IF NotAborted(rq)
           THEN /\ hook' = [hook EXCEPT
                              ![c] = setState(hook[c], hook[c].data, FALSE,
                                              <<normalizeAPIError(err)>>)]
                /\ reqs' = [reqs EXCEPT ![r] = Settled(rq, "failed")]
           ELSE /\ reqs' = [reqs EXCEPT ![r] = Settled(rq, "muted")]
                /\ UNCHANGED hook
      /\ stockDataCache' = CacheAfterFailure(stockDataCache, rq.key)
      /\ UNCHANGED now
      /\ UNCHANGED viewVars

\* The wall clock advances.
Tick ==
  /\ now < MaxTime
  /\ now' = now + 1
  /\ UNCHANGED <<stockDataCache, reqs, hook>>
  /\ UNCHANGED viewVars

Next ==
  \/ \E c \in Consumers : \E pr \in Props(c) : Mount(c, pr[1], pr[2])
  \/ \E c \in Consumers : \E pr \in Props(c) : SetProps(c, pr[1], pr[2])
  \/ \E c \in Consumers : Unmount(c)
  \/ \E c \in Consumers : TimerFires(c)
  \/ \E c \in Consumers : Refetch(c)
  \/ \E r \in DOMAIN reqs : Resolve(r)
  \/ \E r \in DOMAIN reqs, err \in ThrownErrors : Reject(r, err)
  \/ Tick

Spec == Init /\ [][Next]_vars

SpecShared == InitShared /\ [][Next]_vars

\* Two consumers whose props never hold a blank ticker, in a span of time
\* shorter than the TTL (the clock does not advance): consumer 1 moves
\* between the keys "A:1d" and "B:1mo", consumer 2 is a view of "A:1d".
SwitchProps(c) ==
  IF c = 1
    THEN { <<<<"a">>, P1d>>, <<<<"b", " ">>, P1mo>> }
    ELSE { <<<<"A", " ">>, P1d>> }

NextSwitch ==
  \/ \E c \in Consumers : \E pr \in SwitchProps(c) : Mount(c, pr[1], pr[2])
  \/ \E c \in Consumers : \E pr \in SwitchProps(c) : SetProps(c, pr[1], pr[2])
  \/ \E c \in Consumers : Unmount(c)
  \/ \E c \in Consumers : TimerFires(c)
  \/ \E c \in Consumers : Refetch(c)
  \/ \E r \in DOMAIN reqs : Resolve(r)
  \/ \E r \in DOMAIN reqs, err \in ThrownErrors : Reject(r, err)

SpecSwitch == InitShared /\ [][NextSwitch]_vars

\* Every issued call settles, and a pending zero-delay timer fires: the
\* transport answers or fails every call, and the event loop runs every
\* timer that has not been cleared.
SettleStep ==
  \E r \in 1..MaxRequests :
    /\ r \in DOMAIN reqs
    /\ Resolve(r) \/ \E err \in ThrownErrors : Reject(r, err)

TimerStep == \E c \in Consumers : TimerFires(c)

SpecFair == Spec /\ WF_vars(SettleStep) /\ WF_vars(TimerStep)

(***************************************************************************)
(* The cache alone: responses arrive and are stored, whoever asked.        *)
(***************************************************************************)
\* The props whose keys the stored responses belong to: three keys.
StoredProps ==
  { <<<<"a">>, P1d>>, <<<<"a">>, P1mo>>, <<<<"b", " ">>, P1mo>> }

\* A mounted hook rendered with props pr.
HookFor(pr) ==
  [InitialHook EXCEPT !.phase = "mounted", !.ticker = pr[1], !.period = pr[2]]

\* A response for the key of props pr arrives and is stored by
\* setCachedStockData, as both success paths do; the call is logged as an
\* applied request.
StoreResponse(pr) ==
  LET key == cacheKeyOf(HookFor(pr))
      r == Len(reqs) + 1
  IN  /\ Len(reqs) < MaxRequests
      /\ stockDataCache' = setCachedStockData(stockDataCache, key, r, now)
      /\ reqs' = Append(reqs, Settled(NewRequest(0, key, "auto", 0), "applied"))
      /\ UNCHANGED <<now, hook>>
      /\ UNCHANGED viewVars

InitCache ==
  /\ now = 0
  /\ stockDataCache = <<>>
  /\ reqs = <<>>
  /\ hook = [c \in Consumers |-> [InitialHook EXCEPT !.phase = "absent"]]
  /\ response = OrderedResponse
  /\ chart = NoChart
  /\ zoom = NoZoom
  /\ failure = NoFailure
  /\ calc = InitialCalc

NextCache ==
  \/ \E pr \in StoredProps : StoreResponse(pr)
  \/ Tick

SpecCache == InitCache /\ [][NextCache]_vars

(***************************************************************************)
(* The chart components.                                                   *)
(***************************************************************************)
\* The values of the data prop: null, or the response of the backend.
DataProps == { <<>>, <<response>> }

\* CandlestickChartComponent of the ECharts chart renders with data:
\* chartData and chartOption are recomputed.
RenderChart(data) ==
  LET chartData == normalizeChartData(data)
  IN  /\ chart' = [kind |-> "echarts", data |-> data, chartData |-> chartData,
                   volumeData |-> <<>>,
                   zoomStart |-> dataZoomStart(Len(chartData.points))]
      /\ UNCHANGED <<now, stockDataCache, reqs, hook, response, zoom, failure, calc>>

\* CandlestickChartComponent of the lightweight-charts chart renders with
\* data: volumeData is recomputed.
RenderLightweightChart(data) ==
  /\ chart' = [kind |-> "lightweight", data |-> data,
               chartData |-> EMPTY_CHART_DATA,
               volumeData |-> IF data = <<>> \/ Len(data[1].data) = 0
                                THEN <<>>
                                ELSE convertToVolumeData(data[1]),
               zoomStart |-> 0]
  /\ UNCHANGED <<now, stockDataCache, reqs, hook, response, zoom, failure, calc>>

\* buildChartOption for chart data of zoom.pointCount points.
BuildChartOption ==
  /\ zoom.start = NotBuilt
  /\ zoom' = [zoom EXCEPT !.start = dataZoomStart(zoom.pointCount)]
  /\ UNCHANGED <<now, stockDataCache, reqs, hook, response, chart, failure, calc>>

\* A chart is given any response of at most MaxPoints points.
InitChart ==
  /\ now = 0
  /\ stockDataCache = <<>>
  /\ reqs = <<>>
  /\ hook = [c \in Consumers |-> [InitialHook EXCEPT !.phase = "absent"]]
  /\ response \in RawResponses
  /\ chart = NoChart
  /\ zoom = NoZoom
  /\ failure = NoFailure
  /\ calc = InitialCalc

NextChart ==
  \/ \E data \in DataProps : RenderChart(data)
  \/ \E data \in DataProps : RenderLightweightChart(data)

SpecChart == InitChart /\ [][NextChart]_vars

\* A chart option is built for any point count up to MaxPointCount.
InitZoom ==
  /\ now = 0
  /\ stockDataCache = <<>>
  /\ reqs = <<>>
  /\ hook = [c \in Consumers |-> [InitialHook EXCEPT !.phase = "absent"]]
  /\ response = OrderedResponse
  /\ chart = NoChart
  /\ zoom \in { [pointCount |-> n, start |-> NotBuilt] : n \in 0..MaxPointCount }
  /\ failure = NoFailure
  /\ calc = InitialCalc

NextZoom == BuildChartOption

SpecZoom == InitZoom /\ [][NextZoom]_vars

\* One consumer, and a backend serving any of ServedResponses.
InitSeries ==
  /\ now = 0
  /\ stockDataCache = <<>>
  /\ reqs = <<>>
  /\ hook = [c \in Consumers |->
               IF c = 1 THEN InitialHook
               ELSE [InitialHook EXCEPT !.phase = "absent"]]
  /\ response \in ServedResponses
  /\ chart = NoChart
  /\ zoom = NoZoom
  /\ failure = NoFailure
  /\ calc = InitialCalc

SpecSeries == InitSeries /\ [][Next]_vars

(***************************************************************************)
(* A failing fetchOHLCV call alone: the transport fails, fetchOHLCV throws *)
(* and the catch block of the hook reports.                                *)
(***************************************************************************)
\* fetch resolves to a response that cannot be used, or rejects.
TransportFails(outcome) ==
  /\ failure.stage = "none"
  /\ failure' = [failure EXCEPT !.stage = "failed", !.outcome = <<outcome>>]
  /\ UNCHANGED <<now, stockDataCache, reqs, hook, response, chart, zoom, calc>>

\* handleResponse and the catch block of fetchOHLCV.
FetchOHLCVThrows ==
  /\ failure.stage = "failed"
  /\ failure' = [failure EXCEPT
                   !.stage = "thrown",
                   !.thrown = <<fetchOHLCVError(failure.outcome[1])>>]
  /\ UNCHANGED <<now, stockDataCache, reqs, hook, response, chart, zoom, calc>>

\* The catch block of fetchData: an AbortError is dropped, anything else is
\* reported through setError(normalizeAPIError(err)).
ReportError ==
  /\ failure.stage = "thrown"
  /\ failure' =
       IF isAbortErrorName(failure.thrown[1])
         THEN [failure EXCEPT !.stage = "dropped"]
         ELSE [failure EXCEPT
                 !.stage = "reported",
                 !.reported = <<normalizeAPIError(failure.thrown[1])>>]
  /\ UNCHANGED <<now, stockDataCache, reqs, hook, response, chart, zoom, calc>>

InitError == Init

NextError ==
  \/ \E outcome \in TransportFailures : TransportFails(outcome)
  \/ FetchOHLCVThrows
  \/ ReportError

SpecError == InitError /\ [][NextError]_vars

(***************************************************************************)
(* The hook useCalculateIndicators alone.                                  *)
(***************************************************************************)
\* The error the catch block of fetchCalculateIndicators sets.
calcError(err) ==
  [message |-> IF err.message = ""
                 THEN "Could not process calculation request"
                 ELSE err.message,
   status |-> err.status,
   details |-> err.details]

\* abortControllerRef.current.abort(): a call in flight records the abort.
AbortCurrent(calls, controller) ==
  IF controller # 0 /\ calls[controller].outcome = "pending"
    THEN [calls EXCEPT ![controller].aborted = TRUE]
    ELSE calls

\* calculate(ticker, period, indicators): a blank ticker or an empty list
\* resets the state and returns; anything else aborts the controller in
\* the ref, puts a new one there and issues the call.
Calculate(ticker, indicators) ==
  /\ Len(calc.calls) < MaxCalls
  /\ IF Len(ticker) = 0 \/ Len(trim(ticker)) = 0 \/ Len(indicators) = 0
       THEN calc' = [calc EXCEPT
                       !.data = 0, !.loading = FALSE, !.error = <<>>,
                       !.calls = Append(@, [kind |-> "reset",
                                            aborted |-> FALSE,
                                            outcome |-> "none"])]
       ELSE calc' = [calc EXCEPT
                       !.loading = TRUE, !.error = <<>>,
                       !.controller = Len(calc.calls) + 1,
                       !.calls = Append(AbortCurrent(@, calc.controller),
                                        [kind |-> "fetch",
                                         aborted |-> FALSE,
                                         outcome |-> "pending"])]
  /\ UNCHANGED <<now, stockDataCache, reqs, hook, response, chart, zoom, failure>>

\* fetchBatchCalculateIndicator resolves for call r, whose signal has not
\* been aborted; the result is r.
CalcResolve(r) ==
  /\ calc.calls[r].kind = "fetch"
  /\ calc.calls[r].outcome = "pending"
  /\ ~calc.calls[r].aborted
  /\ calc' = [calc EXCEPT !.data = r, !.loading = FALSE,
                          !.calls[r].outcome = "applied"]
  /\ UNCHANGED <<now, stockDataCache, reqs, hook, response, chart, zoom, failure>>

\* fetchBatchCalculateIndicator rejects for call r: with the AbortError
\* when the signal has been aborted, with another error when it has not.
CalcReject(r, err) ==
  /\ calc.calls[r].kind = "fetch"
  /\ calc.calls[r].outcome = "pending"
  /\ isAbortErrorName(err) <=> calc.calls[r].aborted
  /\ IF isAbortErrorName(err)
       THEN calc' = [calc EXCEPT !.calls[r].outcome = "swallowed"]
       ELSE calc' = [calc EXCEPT !.error = <<calcError(err)>>, !.data = 0,
                                 !.loading = FALSE,
                                 !.calls[r].outcome = "failed"]
  /\ UNCHANGED <<now, stockDataCache, reqs, hook, response, chart, zoom, failure>>

InitCalc == Init

NextCalc ==
  \/ \E ticker \in CalcTickers, indicators \in CalcIndicators :
       Calculate(ticker, indicators)
  \/ \E r \in DOMAIN calc.calls : CalcResolve(r)
  \/ \E r \in DOMAIN calc.calls, err \in ThrownErrors : CalcReject(r, err)

SpecCalc == InitCalc /\ [][NextCalc]_vars

(***************************************************************************)
(* Vocabulary of the properties.                                           *)
(***************************************************************************)
Requests == DOMAIN reqs

\* Request r settles in this step.
Settles(r) == reqs[r].outcome = "pending" /\ reqs'[r].outcome # "pending"

\* Request r settles in this step with a response, or with a rejection.
SettlesWithResponse(r) ==
  Settles(r) /\ reqs'[r].outcome \in {"applied", "dropped"}
SettlesWithRejection(r) ==
  Settles(r) /\ reqs'[r].outcome \in {"failed", "muted", "swallowed"}

\* Consumer c's effect runs in this step: first render, or changed key.
EffectRuns(c) ==
  /\ hook'[c].phase = "mounted"
  /\ hook[c].phase = "new" \/ depsOf(hook'[c]) # depsOf(hook[c])

\* The requests issued in this step on behalf of consumer c.
IssuedFor(c) == {r \in DOMAIN reqs' \ DOMAIN reqs : reqs'[r].owner = c}

\* The ticker is empty after trimming: it holds nothing but spaces.
IsBlank(ticker) == \A i \in DOMAIN ticker : ticker[i] = " "

\* The age of the entry of key in the cache (there is one).
AgeOf(key) == now - cacheGet(stockDataCache, key)[1].cachedAt

\* The consumer still wants what request r was issued for.
StillWanted(r) ==
  /\ hook[reqs[r].owner].phase = "mounted"
  /\ cacheKeyOf(hook[reqs[r].owner]) = reqs[r].key
  /\ ~missingTicker(tickerOf(hook[reqs[r].owner]))

\* The OHLCVResponse that data number d stands for: null for 0, and for a
\* request number the response of the backend, which the hook stores and
\* returns as it received it.
ResponseOf(d) == IF d = 0 THEN <<>> ELSE <<response>>

\* A series is normalized: every time parses, and the parsed timestamps
\* never decrease.
IsNormalized(data) ==
  /\ \A i \in DOMAIN data : toEpochMs(data[i].time) # <<>>
  /\ \A i, j \in DOMAIN data :
       i < j => toEpochMs(data[i].time)[1] <= toEpochMs(data[j].time)[1]

\* The ECharts chart has rendered with the response as its data.
Normalized == chart.kind = "echarts" /\ chart.data = <<response>>

\* The timestamps of a sequence of normalized points, and the parsed
\* timestamps (<<ms>> or <<>>) of a sequence of raw points.
TimestampsOf(points) == [i \in DOMAIN points |-> points[i].timestampMs]
ParsedTimes(data) == [i \in DOMAIN data |-> toEpochMs(data[i].time)]

\* A normalized point as the raw point it was made from.
AsRawPoint(point) ==
  [time |-> point.isoTime, open |-> point.open, close |-> point.close]
AsRawPoints(points) == [i \in DOMAIN points |-> AsRawPoint(points[i])]

\* The points of data whose time parses, in the order of data.
Parseable(data) == SelectSeq(data, LAMBDA point : toEpochMs(point.time) # <<>>)

\* The direction colour of a point with the given close against a
\* reference close.
DirectionColour(close, referenceClose) ==
  IF close >= referenceClose THEN UP_COLOR ELSE DOWN_COLOR

\* Point i of data comes before point j in the final order: by parsed
\* timestamp, and by position among points of one timestamp.
Precedes(data, i, j) ==
  LET ti == toEpochMs(data[i].time)[1]
      tj == toEpochMs(data[j].time)[1]
  IN  ti < tj \/ (ti = tj /\ i < j)

\* The reference close of point i of data in the final order: the close of
\* the point immediately before it, or its own open when it is first.
FinalReferenceClose(data, i) ==
  LET before == {j \in DOMAIN data : Precedes(data, j, i)}
  IN  IF before = {} THEN data[i].open
      ELSE data[CHOOSE j \in before :
                  \A k \in before : k = j \/ Precedes(data, k, j)].close

\* The colours normalizeChartData gives follow the order of its points.
NormalizerColoursFollowFinalOrder ==
  chart.kind = "echarts" =>
    LET points == chart.chartData.points
    IN  \A i \in DOMAIN points :
          /\ points[i].volumeColor =
               DirectionColour(points[i].close,
                               IF i = 1 THEN points[i].open
                               ELSE points[i - 1].close)
          /\ chart.chartData.volumes[i].color = points[i].volumeColor

\* The colours convertToVolumeData gives follow the time order of the
\* bars, for a response whose times all carry a zone suffix and parse.
BarColoursFollowFinalOrder ==
  ( /\ chart.kind = "lightweight"
    /\ chart.data = <<response>>
    /\ \A i \in DOMAIN response.data :
         HAS_TIMEZONE_SUFFIX(response.data[i].time)
           /\ toEpochMs(response.data[i].time) # <<>> )
    => \A i \in DOMAIN chart.volumeData :
         chart.volumeData[i].color =
           DirectionColour(response.data[i].close,
                           FinalReferenceClose(response.data, i))

\* A step of consumer c itself: a render with new props, a disposal, or a
\* call of refetch.
ConsumerStep(c) ==
  \/ \E pr \in Props(c) : Mount(c, pr[1], pr[2])
  \/ \E pr \in Props(c) : SetProps(c, pr[1], pr[2])
  \/ Unmount(c)
  \/ Refetch(c)

\* The data consumer c exposes is the last applied response for its
\* current key: a response applied for that key, and the one the cache
\* holds for the key when it holds one.
DataIsLastApplied(c) ==
  LET d == Exposed(hook[c]).data
      key == cacheKeyOf(hook[c])
      found == cacheGet(stockDataCache, key)
  IN  /\ d # 0
      /\ reqs[d].outcome = "applied"
      /\ reqs[d].key = key
      /\ found # <<>> => found[1].data = d

\* Consumer c rests in a state that reflects its key.
AtRest(c) ==
  hook[c].phase = "mounted" =>
    /\ Exposed(hook[c]).loading = FALSE
    /\ Exposed(hook[c]).error # <<>> \/ DataIsLastApplied(c)

\* The entry of key has been evicted: a response was applied for the key,
\* and the cache holds no entry for it.
Evicted(key) ==
  /\ ~cacheHas(stockDataCache, key)
  /\ \E q \in Requests : reqs[q].outcome = "applied" /\ reqs[q].key = key

\* The entry of key is evicted in this step.
EvictedNow(key) ==
  cacheHas(stockDataCache, key) /\ ~cacheHas(stockDataCache', key)

\* The newest entry of the cache after this step is the response r stored
\* for key at the present time.
ReinsertedAsNewest(key, r) ==
  /\ stockDataCache' # <<>>
  /\ stockDataCache'[Len(stockDataCache')] =
       [key |-> key, data |-> r, cachedAt |-> now]

\* The spellings of props a request may be made with.
Spellings == UNION {Props(c) : c \in Consumers} \cup StoredProps

\* Two spellings name one key: their tickers are equal after trimming and
\* upper-casing, and their periods are equal.
SameKeyInputs(p, q) ==
  toUpperCase(trim(p[1])) = toUpperCase(trim(q[1])) /\ p[2] = q[2]

\* A response applied for the key of props p is held as a fresh entry.
FreshlyFetched(p) ==
  LET found == cacheGet(stockDataCache, cacheKeyOf(HookFor(p)))
  IN  /\ found # <<>>
      /\ isCacheFresh(found[1], now)
      /\ reqs[found[1].data].outcome = "applied"

\* A response is applied in this step for the given key.
AppliedNow(key) ==
  \E q \in Requests :
    Settles(q) /\ reqs'[q].outcome = "applied" /\ reqs'[q].key = key

\* The step removes the least-recently-inserted entry, and only that one,
\* because applying a response for a key without an entry takes the store
\* over capacity.
EvictsOldestOnly ==
  /\ Len(stockDataCache) = STOCK_DATA_CACHE_MAX_ENTRIES
  /\ Len(stockDataCache') = STOCK_DATA_CACHE_MAX_ENTRIES
  /\ \A j \in 1..(Len(stockDataCache) - 1) :
       stockDataCache'[j] = stockDataCache[j + 1]
  /\ ~cacheHas(stockDataCache, stockDataCache'[Len(stockDataCache')].key)
  /\ AppliedNow(stockDataCache'[Len(stockDataCache')].key)

\* Consumer c leaves its key in this step: the key changes, or the
\* consumer is disposed.
LeavesKey(c) ==
  /\ hook[c].phase = "mounted"
  /\ \/ hook'[c].phase = "unmounted"
     \/ depsOf(hook'[c]) # depsOf(hook[c])

\* The timer consumer c holds applies an entry of c's present key.
TimerIsForCurrentKey(h) ==
  h.eff.kind = "timer" =>
    /\ h.phase = "mounted"
    /\ reqs[h.eff.data].outcome = "applied"
    /\ reqs[h.eff.data].key = cacheKeyOf(h)

(***************************************************************************)
(* C1.  Automatic fetch: once a request has been canceled (its             *)
(* AbortController aborted), its later settlement, whether a response, an  *)
(* AbortError or any other rejection, changes neither the cache nor any    *)
(* consumer's data, loading or error.                                      *)
(***************************************************************************)
C1_CanceledSettlementChangesNothing ==
  [][\A r \in Requests :
       (reqs[r].kind = "auto" /\ reqs[r].aborted /\ Settles(r))
         => (stockDataCache' = stockDataCache /\ hook' = hook)]_vars

\* A canceled automatic request has settled with a response, and another
\* with a rejection that is no AbortError.
C1_Witness ==
  /\ \E r \in Requests : reqs[r].outcome = "dropped"
  /\ \E r \in Requests : reqs[r].outcome = "muted"

(***************************************************************************)
(* C2.  When a consumer has changed its key or has been disposed, no       *)
(* response to a request it owns for the old key, started by the automatic *)
(* fetch or by refetch, changes the data, loading or error it exposes.     *)
(***************************************************************************)
C2_OldKeyResponseChangesNothing ==
  [][\A r \in Requests :
       (Settles(r) /\ ~StillWanted(r))
         => Exposed(hook'[reqs[r].owner]) = Exposed(hook[reqs[r].owner])]_vars

(***************************************************************************)
(* C3.  In every reachable state every key has at most one live request:   *)
(* issued, not canceled, not settled.                                      *)
(***************************************************************************)
Live(r) == reqs[r].outcome = "pending" /\ ~reqs[r].aborted

C3_AtMostOneLiveRequestPerKey ==
  \A r1, r2 \in Requests :
    (Live(r1) /\ Live(r2) /\ reqs[r1].key = reqs[r2].key) => r1 = r2

(***************************************************************************)
(* C4.  When two requests for the same key overlap, only the later-issued  *)
(* one is applied: the settlement of the earlier one, while a later        *)
(* surviving request for its key exists, neither writes the cache nor      *)
(* changes the data or the error of its consumer.                          *)
(***************************************************************************)
C4_EarlierOverlappingRequestNotApplied ==
  [][\A r1, r2 \in Requests :
       (r1 < r2 /\ reqs[r1].key = reqs[r2].key /\ ~reqs[r2].aborted
        /\ Settles(r1))
         => /\ stockDataCache' = stockDataCache
            /\ hook'[reqs[r1].owner].data = hook[reqs[r1].owner].data
            /\ hook'[reqs[r1].owner].error = hook[reqs[r1].owner].error]_vars

(***************************************************************************)
(* C5.  An automatic request for a key whose cache entry is fresh          *)
(* (now - cachedAt <= TTL, boundary included) issues no network call and   *)
(* schedules the cached value, which becomes the data, with loading false  *)
(* and no error, when the timer fires.                                     *)
(***************************************************************************)
C5_FreshEntryServedWithoutFetch ==
  [][\A c \in Consumers :
       LET key == cacheKeyOf(hook'[c]) IN
       /\ (/\ EffectRuns(c)
           /\ ~IsBlank(hook'[c].ticker)
           /\ cacheHas(stockDataCache, key)
           /\ AgeOf(key) <= STOCK_DATA_CACHE_TTL_MS)
            => /\ Len(reqs') = Len(reqs)
               /\ hook'[c].eff.kind = "timer"
               /\ hook'[c].eff.data = cacheGet(stockDataCache, key)[1].data
       /\ (/\ hook[c].eff.kind = "timer"
           /\ hook'[c].eff.kind = "none"
           /\ hook'[c].phase = "mounted"
           /\ depsOf(hook'[c]) = depsOf(hook[c]))
            => /\ hook'[c].data = hook[c].eff.data
               /\ ~hook'[c].loading
               /\ hook'[c].error = <<>>]_vars

\* A consumer is being served an entry whose age is exactly the TTL.
C5_Witness ==
  \E c \in Consumers :
    /\ hook[c].eff.kind = "timer"
    /\ cacheHas(stockDataCache, cacheKeyOf(hook[c]))
    /\ AgeOf(cacheKeyOf(hook[c])) = STOCK_DATA_CACHE_TTL_MS
    /\ hook[c].eff.data = cacheGet(stockDataCache, cacheKeyOf(hook[c]))[1].data

(***************************************************************************)
(* C6.  An automatic request for a key whose cache entry is stale          *)
(* (now - cachedAt > TTL) exposes the stale value with loading true and    *)
(* issues exactly one fetch; when that fetch, not canceled, gets its       *)
(* response, data is the response, loading is false and the entry of the   *)
(* key holds the response with cachedAt = now.                             *)
(***************************************************************************)
C6_StaleWhileRevalidate ==
  [][/\ \A c \in Consumers :
          LET key == cacheKeyOf(hook'[c]) IN
          (/\ EffectRuns(c)
           /\ ~IsBlank(hook'[c].ticker)
           /\ cacheHas(stockDataCache, key)
           /\ AgeOf(key) > STOCK_DATA_CACHE_TTL_MS)
            => /\ Exposed(hook'[c]).data = cacheGet(stockDataCache, key)[1].data
               /\ Exposed(hook'[c]).loading
               /\ Cardinality(IssuedFor(c)) = 1
               /\ \A r \in IssuedFor(c) : reqs'[r].key = key
     /\ \A r \in Requests :
          (/\ reqs[r].kind = "auto"
           /\ reqs[r].prior # 0
           /\ ~reqs[r].aborted
           /\ SettlesWithResponse(r))
            => /\ Exposed(hook'[reqs[r].owner]) =
                    [data |-> r, loading |-> FALSE, error |-> <<>>]
               /\ cacheGet(stockDataCache', reqs[r].key) =
                    <<[key |-> reqs[r].key, data |-> r, cachedAt |-> now]>>]_vars

\* A refresh of a stale entry has been answered and is what its consumer
\* shows.
C6_Witness ==
  \E r \in Requests, c \in Consumers :
    /\ reqs[r].prior # 0
    /\ reqs[r].outcome = "applied"
    /\ Exposed(hook[c]) = [data |-> r, loading |-> FALSE, error |-> <<>>]
    /\ cacheGet(stockDataCache, reqs[r].key) =
         <<[key |-> reqs[r].key, data |-> r, cachedAt |-> now]>>

(***************************************************************************)
(* C7.  When a fetch that is not canceled fails, the failure leaves the    *)
(* cache as it was (the entry of the key keeps its series and cachedAt),   *)
(* an error is reported with loading false, and the data shown before,     *)
(* a stale cached value included, is still the data.                       *)
(***************************************************************************)
C7_FailureLeavesCacheAndData ==
  [][\A r \in Requests :
       (SettlesWithRejection(r) /\ ~reqs[r].aborted /\ StillWanted(r))
         => /\ stockDataCache' = stockDataCache
            /\ Exposed(hook'[reqs[r].owner]).error # <<>>
            /\ ~Exposed(hook'[reqs[r].owner]).loading
            /\ Exposed(hook'[reqs[r].owner]).data =
                 Exposed(hook[reqs[r].owner]).data]_vars

\* The refresh of a stale entry has failed: the consumer shows the stale
\* value and the error, and the entry is still in the cache.
C7_Witness ==
  \E r \in Requests, c \in Consumers :
    /\ reqs[r].outcome = "failed"
    /\ reqs[r].prior # 0
    /\ Exposed(hook[c]).data = reqs[r].prior
    /\ Exposed(hook[c]).error # <<>>
    /\ ~Exposed(hook[c]).loading
    /\ cacheGet(stockDataCache, cacheKeyOf(hook[c])) # <<>>
    /\ cacheGet(stockDataCache, cacheKeyOf(hook[c]))[1].data = reqs[r].prior

(***************************************************************************)
(* C8.  When the automatic request is made for a key that has no cache     *)
(* entry, the consumer exposes no value (data is null) with loading true   *)
(* and a fetch is issued, whatever it showed for a previous key.           *)
(***************************************************************************)
C8_MissExposesNoValue ==
  [][\A c \in Consumers :
       (/\ EffectRuns(c)
        /\ ~IsBlank(hook'[c].ticker)
        /\ ~cacheHas(stockDataCache, cacheKeyOf(hook'[c])))
         => /\ Exposed(hook'[c]).data = 0
            /\ Exposed(hook'[c]).loading
            /\ Cardinality(IssuedFor(c)) = 1]_vars

(***************************************************************************)
(* C9.  For a ticker that is empty after trimming, the consumer exposes    *)
(* the missing-ticker error with data null and loading false, after the    *)
(* automatic request, after refetch and after the settlement of a request  *)
(* of a previous key, and no step issues a network call on its behalf.     *)
(***************************************************************************)
C9_BlankTickerServedWithoutFetch ==
  [][\A c \in Consumers :
       (hook'[c].phase = "mounted" /\ IsBlank(hook'[c].ticker))
         => /\ Exposed(hook'[c]) =
                 [data |-> 0, loading |-> FALSE,
                  error |-> <<MISSING_TICKER_ERROR>>]
            /\ IssuedFor(c) = {}]_vars

\* A consumer that showed a value, and whose request for a later key is in
\* flight or canceled, has a ticker of one space and has called refetch.
C9_Witness ==
  \E c \in Consumers :
    /\ hook[c].phase = "mounted"
    /\ hook[c].ticker = <<" ">>
    /\ hook[c].error = <<MISSING_TICKER_ERROR>>
    /\ hook[c].data # 0
    /\ \E r \in Requests : reqs[r].owner = c /\ reqs[r].kind = "auto"
                           /\ reqs[r].aborted

(***************************************************************************)
(* C10.  The cache never holds more than STOCK_DATA_CACHE_MAX_ENTRIES      *)
(* entries and never two entries of the same key.                          *)
(***************************************************************************)
C10_CacheBoundedAndKeyed ==
  /\ Len(stockDataCache) <= STOCK_DATA_CACHE_MAX_ENTRIES
  /\ \A i, j \in DOMAIN stockDataCache :
       stockDataCache[i].key = stockDataCache[j].key => i = j

\* The cache is full and the entry of an applied response has been evicted.
C10_Witness ==
  /\ Len(stockDataCache) = STOCK_DATA_CACHE_MAX_ENTRIES
  /\ \E r \in Requests :
       /\ reqs[r].outcome = "applied"
       /\ ~cacheHas(stockDataCache, reqs[r].key)

C12_CachedSeriesAreNormalized ==
  /\ \A i \in DOMAIN stockDataCache :
       IsNormalized(ResponseOf(stockDataCache[i].data)[1].data)
  /\ \A c \in Consumers :
       (hook[c].phase = "mounted" /\ Exposed(hook[c]).data # 0)
         => IsNormalized(ResponseOf(Exposed(hook[c]).data)[1].data)

(***************************************************************************)
(* C13.  For every input point sequence, the points normalizeChartData     *)
(* returns are non-decreasing by parsed timestamp: each carries the        *)
(* timestamp its time parses to, and no point has a timestamp below that   *)
(* of a point before it.                                                   *)
(***************************************************************************)
C13_OutputNonDecreasing ==
  chart.kind = "echarts" =>
    LET points == chart.chartData.points
    IN  /\ \A i \in DOMAIN points :
             <<points[i].timestampMs>> = toEpochMs(points[i].isoTime)
        /\ \A i, j \in DOMAIN points :
             i < j => points[i].timestampMs <= points[j].timestampMs

\* Timestamps [T3, T1, T2] have come out as [T1, T2, T3].
C13_Witness ==
  /\ Normalized
  /\ ParsedTimes(response.data) = << <<4>>, <<1>>, <<2>> >>
  /\ TimestampsOf(chart.chartData.points) = <<1, 2, 4>>

(***************************************************************************)
(* C14.  The normalized output holds exactly the input points whose time   *)
(* parses, each exactly once (points of equal timestamp are all kept), and *)
(* points of equal timestamp come out in the relative order they had in    *)
(* the input: for every timestamp, the output points of that timestamp are *)
(* the parseable input points of that timestamp, in input order.           *)
(***************************************************************************)
C14_ExactlyParseablePointsStable ==
  Normalized =>
    LET out == AsRawPoints(chart.chartData.points)
        inp == Parseable(response.data)
        At(t, data) == SelectSeq(data, LAMBDA point : toEpochMs(point.time) = t)
        times == {toEpochMs(inp[i].time) : i \in DOMAIN inp}
                   \cup {toEpochMs(out[i].time) : i \in DOMAIN out}
    IN  /\ Len(out) = Len(inp)
        /\ \A t \in times : At(t, out) = At(t, inp)

\* Two different points of one timestamp, given after a later point, have
\* come out before it and in their input order.
C14_Witness ==
  /\ Normalized
  /\ ParsedTimes(response.data) = << <<4>>, <<2>>, <<2>> >>
  /\ response.data[2] # response.data[3]
  /\ AsRawPoints(chart.chartData.points) =
       <<response.data[2], response.data[3], response.data[1]>>

(***************************************************************************)
(* C15.  If the parseable points of the input are already non-decreasing   *)
(* by timestamp, normalization returns them in exactly the input order,    *)
(* with the same count; and normalizing the points of a normalized series  *)
(* returns the same result.                                                *)
(***************************************************************************)
C15_SortedInputUnchangedAndIdempotent ==
  Normalized =>
    LET out == AsRawPoints(chart.chartData.points)
        inp == Parseable(response.data)
        times == ParsedTimes(inp)
    IN  /\ (\A i, j \in DOMAIN inp : i < j => times[i][1] <= times[j][1])
             => out = inp
        /\ normalizeChartData(<<[data |-> out]>>) = chart.chartData

\* A series already in order, with a repeated timestamp and a point that
\* does not parse between, has come out as its two parseable points.
C15_Witness ==
  /\ Normalized
  /\ ParsedTimes(response.data) = << <<2>>, <<>>, <<2>> >>
  /\ AsRawPoints(chart.chartData.points) = <<response.data[1], response.data[3]>>

(***************************************************************************)
(* C16.  Points whose time fails to parse are dropped: the output has      *)
(* exactly as many points as the input has parseable times, and an input   *)
(* none of whose points parses yields the same result as an empty and as   *)
(* an absent input.                                                        *)
(***************************************************************************)
C16_UnparseableDropped ==
  Normalized =>
    /\ Len(chart.chartData.points) = Len(Parseable(response.data))
    /\ Parseable(response.data) = <<>> =>
         /\ chart.chartData = normalizeChartData(<<>>)
         /\ chart.chartData = normalizeChartData(<<[data |-> <<>>]>>)

\* A response of two points, neither of which parses, has been normalized.
C16_Witness ==
  /\ Normalized
  /\ ParsedTimes(response.data) = << <<>>, <<>> >>
  /\ chart.chartData = EMPTY_CHART_DATA

(***************************************************************************)
(* C17.  For every point in the final (sorted) order, the direction colour *)
(* is UP if close >= referenceClose and DOWN otherwise, where              *)
(* referenceClose is the close of the point immediately before it in the   *)
(* final order, or the point's own open for the first point; it is never   *)
(* taken from the predecessor in input order when that differs.  Stated    *)
(* for both charts: the points and volumes of normalizeChartData, and the  *)
(* bars of convertToVolumeData for a response whose times all carry a zone *)
(* suffix (the bars are shown in time order).                              *)
(***************************************************************************)
C17_DirectionColourFollowsFinalOrder ==
  NormalizerColoursFollowFinalOrder /\ BarColoursFollowFinalOrder

C19_IntradayFlag ==
  chart.kind = "echarts" =>
    LET points == chart.chartData.points
    IN  IF points = <<>>
          THEN chart.chartData.useIntradayAxisLabels = FALSE
          ELSE chart.chartData.useIntradayAxisLabels =
                 (points[Len(points)].timestampMs - points[1].timestampMs
                    <= INTRADAY_RANGE_MS)

\* A series given out of order that spans exactly the threshold carries
\* the flag.
C19_Witness ==
  /\ Normalized
  /\ ~isAlreadySorted(parsePoints(response.data))
  /\ Len(chart.chartData.points) >= 2
  /\ chart.chartData.points[Len(chart.chartData.points)].timestampMs
       - chart.chartData.points[1].timestampMs = INTRADAY_RANGE_MS
  /\ chart.chartData.useIntradayAxisLabels

(***************************************************************************)
(* C20.  If every issued fetch eventually resolves or rejects (the         *)
(* fairness of SpecFair) and the consumer eventually stops changing its    *)
(* key and calling refetch, then the consumer eventually reaches and stays *)
(* in a state with loading=false in which either data is the last applied  *)
(* response for its current key or error is set.                           *)
(***************************************************************************)
C20_EventuallyAtRest ==
  \A c \in Consumers :
    (<>[][~ConsumerStep(c)]_vars) => <>[]AtRest(c)

(***************************************************************************)
(* C21.  In every reachable state, loading is true whenever a request      *)
(* issued by the consumer for its current key, by the automatic fetch or   *)
(* by refetch, is still outstanding and has not been canceled.             *)
(***************************************************************************)
C21_LoadingWhileRequestOutstanding ==
  \A c \in Consumers :
    ( /\ hook[c].phase = "mounted"
      /\ ~missingTicker(tickerOf(hook[c]))
      /\ \E r \in Requests :
           /\ Live(r)
           /\ reqs[r].owner = c
           /\ reqs[r].key = cacheKeyOf(hook[c]) )
      => Exposed(hook[c]).loading

(***************************************************************************)
(* C22.  When fetchOHLCV fails with a structured error, the error reported *)
(* to the consumer has the same message, the same status and the same      *)
(* details as the error thrown: none of the three fields is added,         *)
(* replaced or dropped.                                                    *)
(***************************************************************************)
C22_ErrorPassedThroughUnchanged ==
  failure.stage = "reported" =>
    /\ failure.reported[1].message = failure.thrown[1].message
    /\ failure.reported[1].status = failure.thrown[1].status
    /\ failure.reported[1].details = failure.thrown[1].details

\* Errors of every shape are reported: one with a status and the body as
\* details, and one fetchOHLCV wrapped, which has no status.
C22_Witness ==
  /\ failure.stage = "reported"
  /\ failure.outcome[1].kind = "network"
  /\ failure.reported[1].status = NoStatus
  /\ failure.reported[1].details = "TypeError"

(***************************************************************************)
(* C23.  When the cache entry of key K is evicted while a request for K is *)
(* in flight, the request is left as it is, not canceled; and when a       *)
(* request that is not canceled succeeds for a key whose entry has been    *)
(* evicted, its response becomes the data of the consumer and the key is   *)
(* inserted again as the newest entry of the cache.                        *)
(***************************************************************************)
C23_EvictionLeavesRequestInFlight ==
  [][ \A r \in Requests :
        LET key == reqs[r].key
            c == reqs[r].owner
        IN  reqs[r].outcome = "pending" =>
              /\ EvictedNow(key) => reqs'[r] = reqs[r]
              /\ ( /\ Evicted(key)
                   /\ ~reqs[r].aborted
                   /\ hook[c].phase = "mounted"
                   /\ SettlesWithResponse(r) )
                   => /\ reqs'[r].outcome = "applied"
                      /\ hook'[c].data = r
                      /\ ReinsertedAsNewest(key, r) ]_vars

\* A response has been applied for a key that was evicted while the
\* request was in flight: the request was issued before the response that
\* evicted the key, the consumer still wants the key, and the key is back
\* in the cache with this response.
C23_Witness ==
  \E r, q \in Requests :
    /\ r < q
    /\ reqs[r].outcome = "applied"
    /\ reqs[q].outcome = "applied"
    /\ reqs[q].key # reqs[r].key
    /\ \E p \in Requests :
         p < r /\ reqs[p].outcome = "applied" /\ reqs[p].key = reqs[r].key
    /\ stockDataCache = <<[key |-> reqs[r].key, data |-> r, cachedAt |-> now]>>
    /\ \E c \in Consumers :
         /\ hook[c].phase = "mounted"
         /\ cacheKeyOf(hook[c]) = reqs[r].key
         /\ Exposed(hook[c]).data = r

(***************************************************************************)
(* C24.  Two requests whose tickers are equal after trimming and           *)
(* upper-casing and whose periods are equal use one cache entry: they have *)
(* the same key, read the same entry, and once a response for one is held  *)
(* within the TTL a request for the other issues no fetch.  Two requests   *)
(* that differ in normalized ticker or in period have different keys and   *)
(* never read the same entry, and every entry is written under the key of  *)
(* the request whose response it holds.                                    *)
(***************************************************************************)
C24_KeyIsNormalizedTickerAndPeriod ==
  /\ \A p, q \in Spellings :
       LET kp == cacheKeyOf(HookFor(p))
           kq == cacheKeyOf(HookFor(q))
       IN  IF SameKeyInputs(p, q)
             THEN /\ kp = kq
                  /\ cacheGet(stockDataCache, kp) = cacheGet(stockDataCache, kq)
                  /\ FreshlyFetched(p) => ~EffectFetches(HookFor(q))
             ELSE /\ kp # kq
                  /\ cacheGet(stockDataCache, kp) # <<>> =>
                       cacheGet(stockDataCache, kp) # cacheGet(stockDataCache, kq)
  /\ \A i \in DOMAIN stockDataCache :
       reqs[stockDataCache[i].data].key = stockDataCache[i].key

\* A response fetched for the spelling "a" is held within the TTL, and
\* the effect of a consumer that spells the ticker " A" or "A " issues no
\* fetch, while one for the same ticker and another period does.
C24_Witness ==
  /\ FreshlyFetched(<<<<"a">>, P1d>>)
  /\ ~EffectFetches(HookFor(<<<<" ", "A">>, P1d>>))
  /\ ~EffectFetches(HookFor(<<<<"A", " ">>, P1d>>))
  /\ EffectFetches(HookFor(<<<<"a">>, P1mo>>))

(***************************************************************************)
(* C25.  The coordinator offers invalidate(ticker, period): whenever key K *)
(* has a cache entry, a step is possible after which K has no entry and    *)
(* the entries of all other keys are as they were.                         *)
(***************************************************************************)
C25_InvalidateOffered ==
  \A i \in DOMAIN stockDataCache :
    ENABLED ( /\ Next
              /\ stockDataCache' =
                   cacheDelete(stockDataCache, stockDataCache[i].key) )

C27_DataBelongsToCurrentKey ==
  \A c \in Consumers :
    LET out == Exposed(hook[c])
    IN  ( /\ hook[c].phase = "mounted"
          /\ ~missingTicker(tickerOf(hook[c]))
          /\ hook[c].eff.kind = "timer"
          /\ ~out.loading
          /\ out.error = <<>>
          /\ out.data # 0 )
          => /\ reqs[out.data].outcome = "applied"
             /\ reqs[out.data].key = cacheKeyOf(hook[c])

(***************************************************************************)
(* C28.  A fresh cache entry is applied by a zero-delay timer.  When the   *)
(* consumer changes key or unmounts before the timer fires, the timer is   *)
(* gone after that step: an unmounted consumer holds no timer, and every   *)
(* timer that is pending belongs to a mounted consumer and carries an      *)
(* entry of the consumer's present key.  A timer that fires applies an     *)
(* entry of the key the consumer is on: the deferred update of a key the   *)
(* consumer has left is never applied.                                     *)
(***************************************************************************)
C28_TimerClearedOnKeyChange ==
  [][ \A c \in Consumers :
        /\ (hook[c].eff.kind = "timer" /\ LeavesKey(c)) =>
             /\ hook'[c].phase = "unmounted" => hook'[c].eff = NoEffect
             /\ hook'[c].eff.kind = "timer" =>
                  hook'[c].eff.data # hook[c].eff.data
        /\ TimerIsForCurrentKey(hook'[c])
        /\ ( /\ hook[c].eff.kind = "timer"
             /\ hook'[c].eff = NoEffect
             /\ ~LeavesKey(c) )
             => /\ hook'[c].data = hook[c].eff.data
                /\ reqs[hook'[c].data].key = cacheKeyOf(hook'[c]) ]_vars

\* Consumer 1, on B:1mo with response 1, went to A:1d while the entry of
\* response 2 was fresh, and came back before the timer fired.  Three
\* requests were issued in all and the third is the one consumer 1 issued
\* on coming back, so the visit to A:1d issued none and was served by a
\* timer; consumer 1 still holds response 1, so the timer, which would
\* have put response 2 there, never fired.
C28_Witness ==
  /\ Len(reqs) = 3
  /\ reqs[1].outcome = "applied" /\ reqs[1].key = cacheKeyOf(hook[1])
  /\ reqs[2].outcome = "applied" /\ reqs[2].key # cacheKeyOf(hook[1])
  /\ Live(3) /\ reqs[3].owner = 1 /\ reqs[3].kind = "auto"
  /\ hook[1].phase = "mounted"
  /\ hook[1].eff = [kind |-> "fetch", req |-> 3, data |-> 0]
  /\ hook[1].data = 1
  /\ hook[1].loading
  /\ hook[2].phase = "mounted" /\ hook[2].data = 2

(***************************************************************************)
(* C29.  For every point count n >= 1 the start of the default zoom window *)
(* is a whole percentage with 0 <= start < 100, so that the window         *)
(* [start%, 100%] is never empty.                                          *)
(***************************************************************************)
C29_ZoomWindowNeverEmpty ==
  (zoom.start # NotBuilt /\ zoom.pointCount >= 1) => zoom.start \in 0..99

(***************************************************************************)
(* C30.  In useCalculateIndicators, after calculate has been called with a *)
(* blank ticker or an empty indicator list, data is null, loading is false *)
(* and error is null until the next calculate call, whatever was in flight *)
(* when the reset happened.                                                *)
(***************************************************************************)
C30_ResetStaysUntilNextCalculate ==
  ( /\ calc.calls # <<>>
    /\ calc.calls[Len(calc.calls)].kind = "reset" )
    => calc.data = 0 /\ ~calc.loading /\ calc.error = <<>>

====
